---- MODULE Spec2Model ----
(***************************************************************************)
(* The GL33 tessellation backend of luminance-gl                           *)
(* (src/luminance-gl/src/gl33/tessellation.rs).                            *)
(*                                                                         *)
(* Every operation (new, attributeless, the render closure, destroy) is    *)
(* one action.  An operation is translated into the ordered sequence of    *)
(* device calls it issues; a call is a record whose fn field is the name   *)
(* of the gl function.  The sequence issued by the last operation is kept  *)
(* in lastOp, together with the operation's arguments, with the binding    *)
(* that was active when the operation started, and with whether the        *)
(* operation panicked.  A panic ends the process: no action follows it.    *)
(*                                                                         *)
(* Option<T> is modelled as a sequence of length at most one: <<>> is      *)
(* None and <<x>> is Some(x).  A slice is modelled by its length, the only *)
(* thing this file reads of it.  f32 sizes are modelled by integers.       *)
(***************************************************************************)
EXTENDS Integers, Sequences, FiniteSets, TLC

VARIABLES
  tess,          \* the GLTess values constructed so far, in construction order
  built,         \* for each of them, the arguments it was constructed from
  destroyed,     \* for each of them, how often destroy was called on it: 0, 1, or
                 \* 2 for twice or more
  vaos,          \* vertex array names generated and not deleted
  bufs,          \* buffer names generated and not deleted
  boundVao,      \* the vertex array last bound with gl::BindVertexArray
  arrayBuffer,   \* the buffer last bound to gl::ARRAY_BUFFER
  elementBuffer, \* the buffer last bound to gl::ELEMENT_ARRAY_BUFFER
  lastOp         \* the last operation: its arguments, its device calls, its outcome

vars == <<tess, built, destroyed, vaos, bufs, boundVao, arrayBuffer, elementBuffer, lastOp>>

(***************************************************************************)
(* Bounds of the model.                                                    *)
(***************************************************************************)
MaxTess == 2        \* tessellations constructed in one run
MaxLen == 2         \* length of a vertex slice or of an index slice
MaxInstances == 3   \* instance count passed to a render closure
MaxComps == 3       \* components of a vertex format

None == <<>>
Some(x) == <<x>>

Modes == {"Point", "Line", "LineStrip", "Triangle", "TriangleFan", "TriangleStrip"}
Types == {"Floating", "Integral", "Unsigned", "Boolean"}
Dims == {"Dim1", "Dim2", "Dim3", "Dim4"}
CompSizes == {8, 16, 32}

\* luminance::vertex::VertexComponentFormat
VertexComponentFormat == [comp_type : Types, dim : Dims, comp_size : CompSizes]

VaoNames == 1..MaxTess
BufNames == 1..(MaxTess + 1)

(***************************************************************************)
(* Device calls.                                                           *)
(***************************************************************************)
GenVertexArrays(vao) == [fn |-> "GenVertexArrays", n |-> 1, name |-> vao]
BindVertexArray(vao) == [fn |-> "BindVertexArray", array |-> vao]
BindBuffer(target, buffer) == [fn |-> "BindBuffer", target |-> target, buffer |-> buffer]
VertexAttribPointer(i, size, type, normalized, stride, off) ==
  [fn |-> "VertexAttribPointer", index |-> i, size |-> size, type |-> type,
   normalized |-> normalized, stride |-> stride, pointer |-> off]
VertexAttribIPointer(i, size, type, stride, off) ==
  [fn |-> "VertexAttribIPointer", index |-> i, size |-> size, type |-> type,
   stride |-> stride, pointer |-> off]
EnableVertexAttribArray(i) == [fn |-> "EnableVertexAttribArray", index |-> i]
PointSize(size) == [fn |-> "PointSize", size |-> size]
LineWidth(width) == [fn |-> "LineWidth", width |-> width]
DrawArrays(mode, first, count) ==
  [fn |-> "DrawArrays", mode |-> mode, first |-> first, count |-> count]
DrawArraysInstanced(mode, first, count, primcount) ==
  [fn |-> "DrawArraysInstanced", mode |-> mode, first |-> first, count |-> count,
   primcount |-> primcount]
DrawElements(mode, count, type) ==
  [fn |-> "DrawElements", mode |-> mode, count |-> count, type |-> type]
DrawElementsInstanced(mode, count, type, primcount) ==
  [fn |-> "DrawElementsInstanced", mode |-> mode, count |-> count, type |-> type,
   primcount |-> primcount]
DeleteVertexArrays(names) == [fn |-> "DeleteVertexArrays", n |-> 1, names |-> names]
DeleteBuffers(n, names) == [fn |-> "DeleteBuffers", n |-> n, names |-> names]

\* gl33::buffer::Buffer::new(len) followed by fill: the Device Buffer Service
\* allocates a buffer of len elements, fills it and hands back its handle
BufferNew(len, handle) == [fn |-> "Buffer::new", len |-> len, handle |-> handle]
BufferFill(handle, len) == [fn |-> "Buffer::fill", handle |-> handle, len |-> len]

\* the largest GLsizei (i32)
GLsizeiMax == 2147483647

\* n as GLsizei, for n below 2^32: values above GLsizeiMax wrap to negative ones
as_GLsizei(n) == IF n <= GLsizeiMax THEN n ELSE (n - GLsizeiMax) - GLsizeiMax - 2

(***************************************************************************)
(* The attribute layout: lines 139-199.                                    *)
(***************************************************************************)
dim_as_size(d) ==
  CASE d = "Dim1" -> 1
    [] d = "Dim2" -> 2
    [] d = "Dim3" -> 3
    [] d = "Dim4" -> 4

\* opengl_sized_type without the Boolean alternative of the UNSIGNED_BYTE arm
opengl_sized_type_no_bool(f) ==
  CASE f.comp_type = "Integral" /\ f.comp_size = 8 -> "BYTE"
    [] f.comp_type = "Integral" /\ f.comp_size = 16 -> "SHORT"
    [] f.comp_type = "Integral" /\ f.comp_size = 32 -> "INT"
    [] f.comp_type = "Unsigned" /\ f.comp_size = 8 -> "UNSIGNED_BYTE"
    [] f.comp_type = "Unsigned" /\ f.comp_size = 16 -> "UNSIGNED_SHORT"
    [] f.comp_type = "Unsigned" /\ f.comp_size = 32 -> "UNSIGNED_INT"
    [] f.comp_type = "Floating" /\ f.comp_size = 32 -> "FLOAT"
    [] OTHER -> "panic"

\* "panic" stands for the panic!() of the last arm
opengl_sized_type(f) ==
  CASE f.comp_type = "Integral" /\ f.comp_size = 8 -> "BYTE"
    [] f.comp_type = "Integral" /\ f.comp_size = 16 -> "SHORT"
    [] f.comp_type = "Integral" /\ f.comp_size = 32 -> "INT"
    [] f.comp_type \in {"Unsigned", "Boolean"} /\ f.comp_size = 8 -> "UNSIGNED_BYTE"
    [] f.comp_type = "Unsigned" /\ f.comp_size = 16 -> "UNSIGNED_SHORT"
    [] f.comp_type = "Unsigned" /\ f.comp_size = 32 -> "UNSIGNED_INT"
    [] f.comp_type = "Floating" /\ f.comp_size = 32 -> "FLOAT"
    [] OTHER -> "panic"

component_weight(f) == dim_as_size(f.dim) * f.comp_size

RECURSIVE vertex_weight(_)
vertex_weight(formats) ==
  IF formats = <<>> THEN 0
  ELSE vertex_weight(SubSeq(formats, 1, Len(formats) - 1))
         + component_weight(formats[Len(formats)])

\* set_component_format that enables the slot before it computes the sized type
set_component_format_enable_first(i, stride, off, f) ==
  IF opengl_sized_type(f) = "panic"
  THEN [calls |-> << EnableVertexAttribArray(i) >>, panic |-> TRUE]
  ELSE [calls |->
          << EnableVertexAttribArray(i),
             IF f.comp_type = "Floating"
             THEN VertexAttribPointer(i, dim_as_size(f.dim), opengl_sized_type(f),
                                      FALSE, stride, off)
             ELSE VertexAttribIPointer(i, dim_as_size(f.dim), opengl_sized_type(f),
                                       stride, off) >>,
        panic |-> FALSE]

\* set_component_format with the floating pointer call for every category
set_component_format_all_float(i, stride, off, f) ==
  IF opengl_sized_type(f) = "panic"
  THEN [calls |-> <<>>, panic |-> TRUE]
  ELSE [calls |->
          << VertexAttribPointer(i, dim_as_size(f.dim), opengl_sized_type(f),
                                 FALSE, stride, off),
             EnableVertexAttribArray(i) >>,
        panic |-> FALSE]

\* The arguments of the pointer call are evaluated before the call is made, so
\* a panic of opengl_sized_type leaves no call behind.
set_component_format(i, stride, off, f) ==
  IF opengl_sized_type(f) = "panic"
  THEN [calls |-> <<>>, panic |-> TRUE]
  ELSE [calls |->
          << IF f.comp_type = "Floating"
             THEN VertexAttribPointer(i, dim_as_size(f.dim), opengl_sized_type(f),
                                      FALSE, stride, off)
             ELSE VertexAttribIPointer(i, dim_as_size(f.dim), opengl_sized_type(f),
                                       stride, off),
             EnableVertexAttribArray(i) >>,
        panic |-> FALSE]

\* the loop with the offset advanced by the stride instead of the weight
RECURSIVE pointers_from_by_stride(_, _, _, _)
pointers_from_by_stride(formats, k, stride, offset) ==
  IF k > Len(formats) THEN [calls |-> <<>>, panic |-> FALSE]
  ELSE LET one == set_component_format(k - 1, stride, offset, formats[k])
       IN  IF one.panic THEN one
           ELSE LET rest == pointers_from_by_stride(formats, k + 1, stride,
                                                    offset + stride)
                IN  [calls |-> one.calls \o rest.calls, panic |-> rest.panic]

\* the for loop of set_vertex_pointers, from the component at position k on
\* (slot k - 1, enumerate() counting from 0)
RECURSIVE pointers_from(_, _, _, _)
pointers_from(formats, k, stride, offset) ==
  IF k > Len(formats) THEN [calls |-> <<>>, panic |-> FALSE]
  ELSE LET one == set_component_format(k - 1, stride, offset, formats[k])
       IN  IF one.panic THEN one
           ELSE LET rest == pointers_from(formats, k + 1, stride,
                                          offset + component_weight(formats[k]))
                IN  [calls |-> one.calls \o rest.calls, panic |-> rest.panic]

set_vertex_pointers(formats) ==
  pointers_from(formats, 1, as_GLsizei(vertex_weight(formats)), 0)

opengl_mode(mode) ==
  CASE mode = "Point" -> "POINTS"
    [] mode = "Line" -> "LINES"
    [] mode = "LineStrip" -> "LINE_STRIP"
    [] mode = "Triangle" -> "TRIANGLES"
    [] mode = "TriangleFan" -> "TRIANGLE_FAN"
    [] mode = "TriangleStrip" -> "TRIANGLE_STRIP"

\* size.unwrap_or(1.)
DefaultSize == 1

\* set_point_line_size with LineStrip left to the catch-all arm
set_point_line_size_strip(mode, size) ==
  LET computed == IF size = None THEN DefaultSize ELSE size[1]
  IN  CASE mode = "Point" -> << PointSize(computed) >>
        [] mode = "Line" -> << LineWidth(computed) >>
        [] OTHER -> << >>

set_point_line_size(mode, size) ==
  LET computed == IF size = None THEN DefaultSize ELSE size[1]
  IN  CASE mode = "Point" -> << PointSize(computed) >>
        [] mode \in {"Line", "LineStrip"} -> << LineWidth(computed) >>
        [] OTHER -> << >>

(***************************************************************************)
(* The operations: lines 19-137.  vao, vbo and ibo are the names the       *)
(* device hands out to the operation.                                      *)
(***************************************************************************)

\* render_indexed with the instanced branch lost: any instances >= 1 draws once
render_indexed_once(vao, mode, ind_nb, size, instances) ==
  LET pre == << BindVertexArray(vao) >> \o set_point_line_size(mode, size)
  IN  IF instances >= 1
      THEN [calls |-> pre \o << DrawElements(opengl_mode(mode), as_GLsizei(ind_nb),
                                        "UNSIGNED_INT") >>,
            panic |-> FALSE]
      ELSE [calls |-> pre, panic |-> TRUE]

\* the render closure of an indexed tessellation, lines 58-70
render_indexed(vao, mode, ind_nb, size, instances) ==
  LET pre == << BindVertexArray(vao) >> \o set_point_line_size(mode, size)
  IN  IF instances = 1
      THEN [calls |-> pre \o << DrawElements(opengl_mode(mode), as_GLsizei(ind_nb),
                                        "UNSIGNED_INT") >>,
            panic |-> FALSE]
      ELSE IF instances > 1
      THEN [calls |-> pre \o << DrawElementsInstanced(opengl_mode(mode), as_GLsizei(ind_nb),
                                                     "UNSIGNED_INT",
                                                     as_GLsizei(instances)) >>,
            panic |-> FALSE]
      ELSE [calls |-> pre, panic |-> TRUE]

\* render_array that accepts zero instances
render_array_zero(vao, mode, vert_nb, size, instances) ==
  LET pre == << BindVertexArray(vao) >> \o set_point_line_size(mode, size)
  IN  IF instances = 1
      THEN [calls |-> pre \o << DrawArrays(opengl_mode(mode), 0, as_GLsizei(vert_nb)) >>,
            panic |-> FALSE]
      ELSE [calls |-> pre \o << DrawArraysInstanced(opengl_mode(mode), 0,
                                                   as_GLsizei(vert_nb),
                                                   as_GLsizei(instances)) >>,
            panic |-> FALSE]

\* render_array that rejects zero instances before it touches the device
render_array_check_first(vao, mode, vert_nb, size, instances) ==
  LET pre == << BindVertexArray(vao) >> \o set_point_line_size(mode, size)
  IN  IF instances = 1
      THEN [calls |-> pre \o << DrawArrays(opengl_mode(mode), 0, as_GLsizei(vert_nb)) >>,
            panic |-> FALSE]
      ELSE IF instances > 1
      THEN [calls |-> pre \o << DrawArraysInstanced(opengl_mode(mode), 0,
                                                   as_GLsizei(vert_nb),
                                                   as_GLsizei(instances)) >>,
            panic |-> FALSE]
      ELSE [calls |-> << >>, panic |-> TRUE]

\* the render closure of a non-indexed tessellation, lines 78-90
render_array(vao, mode, vert_nb, size, instances) ==
  LET pre == << BindVertexArray(vao) >> \o set_point_line_size(mode, size)
  IN  IF instances = 1
      THEN [calls |-> pre \o << DrawArrays(opengl_mode(mode), 0, as_GLsizei(vert_nb)) >>,
            panic |-> FALSE]
      ELSE IF instances > 1
      THEN [calls |-> pre \o << DrawArraysInstanced(opengl_mode(mode), 0,
                                                   as_GLsizei(vert_nb),
                                                   as_GLsizei(instances)) >>,
            panic |-> FALSE]
      ELSE [calls |-> pre, panic |-> TRUE]

\* render_attributeless that draws under whatever vertex array is active
render_attributeless_unbound(vao, mode, vert_nb, size, instances) ==
  LET pre == set_point_line_size(mode, size)
  IN  IF instances = 1
      THEN [calls |-> pre \o << DrawArrays(opengl_mode(mode), 0, as_GLsizei(vert_nb)) >>,
            panic |-> FALSE]
      ELSE IF instances > 1
      THEN [calls |-> pre \o << DrawArraysInstanced(opengl_mode(mode), 0,
                                                   as_GLsizei(vert_nb),
                                                   as_GLsizei(instances)) >>,
            panic |-> FALSE]
      ELSE [calls |-> pre, panic |-> TRUE]

\* the render closure of an attributeless tessellation, lines 119-131
render_attributeless(vao, mode, vert_nb, size, instances) ==
  LET pre == << BindVertexArray(vao) >> \o set_point_line_size(mode, size)
  IN  IF instances = 1
      THEN [calls |-> pre \o << DrawArrays(opengl_mode(mode), 0, as_GLsizei(vert_nb)) >>,
            panic |-> FALSE]
      ELSE IF instances > 1
      THEN [calls |-> pre \o << DrawArraysInstanced(opengl_mode(mode), 0,
                                                   as_GLsizei(vert_nb),
                                                   as_GLsizei(instances)) >>,
            panic |-> FALSE]
      ELSE [calls |-> pre, panic |-> TRUE]

\* (tessellation.render)(size, instances): the call of the boxed closure
render(r, size, instances) ==
  CASE r.closure = "indexed" -> render_indexed(r.vao, r.mode, r.ind_nb, size, instances)
    [] r.closure = "array" -> render_array(r.vao, r.mode, r.vert_nb, size, instances)
    [] r.closure = "attributeless" ->
         render_attributeless(r.vao, r.mode, r.vert_nb, size, instances)

\* new that lists the index buffer before the vertex buffer
new_ibo_first(mode, vert_nb, indices, formats, vao, vbo, ibo) ==
  LET head == << GenVertexArrays(vao), BindVertexArray(vao),
                 BufferNew(vert_nb, vbo), BufferFill(vbo, vert_nb),
                 BindBuffer("ARRAY_BUFFER", vbo) >>
      ptrs == set_vertex_pointers(formats)
  IN  IF ptrs.panic
      THEN [calls |-> head \o ptrs.calls, panic |-> TRUE, ret |-> None]
      ELSE IF indices # None
      THEN LET ind_nb == indices[1]
           IN  [calls |-> head \o ptrs.calls \o
                          << BufferNew(ind_nb, ibo), BufferFill(ibo, ind_nb),
                             BindBuffer("ELEMENT_ARRAY_BUFFER", ibo),
                             BindVertexArray(0) >>,
                panic |-> FALSE,
                ret |-> Some([render |-> [closure |-> "indexed", vao |-> vao,
                                          mode |-> mode, ind_nb |-> ind_nb],
                              vao |-> vao,
                              buffers |-> << ibo, vbo >>])]
      ELSE [calls |-> head \o ptrs.calls \o << BindVertexArray(0) >>,
            panic |-> FALSE,
            ret |-> Some([render |-> [closure |-> "array", vao |-> vao,
                                      mode |-> mode, vert_nb |-> vert_nb],
                          vao |-> vao,
                          buffers |-> << vbo >>])]

\* new whose closures capture the vertex array name before it is generated
new_capturing_early(mode, vert_nb, indices, formats, vao, vbo, ibo) ==
  LET head == << GenVertexArrays(vao), BindVertexArray(vao),
                 BufferNew(vert_nb, vbo), BufferFill(vbo, vert_nb),
                 BindBuffer("ARRAY_BUFFER", vbo) >>
      ptrs == set_vertex_pointers(formats)
  IN  IF ptrs.panic
      THEN [calls |-> head \o ptrs.calls, panic |-> TRUE, ret |-> None]
      ELSE IF indices # None
      THEN LET ind_nb == indices[1]
           IN  [calls |-> head \o ptrs.calls \o
                          << BufferNew(ind_nb, ibo), BufferFill(ibo, ind_nb),
                             BindBuffer("ELEMENT_ARRAY_BUFFER", ibo),
                             BindVertexArray(0) >>,
                panic |-> FALSE,
                ret |-> Some([render |-> [closure |-> "indexed", vao |-> 0,
                                          mode |-> mode, ind_nb |-> ind_nb],
                              vao |-> vao,
                              buffers |-> << vbo, ibo >>])]
      ELSE [calls |-> head \o ptrs.calls \o << BindVertexArray(0) >>,
            panic |-> FALSE,
            ret |-> Some([render |-> [closure |-> "array", vao |-> 0,
                                      mode |-> mode, vert_nb |-> vert_nb],
                          vao |-> vao,
                          buffers |-> << vbo >>])]

\* new that unbinds the vertex array right after the attribute layout
new_unbind_first(mode, vert_nb, indices, formats, vao, vbo, ibo) ==
  LET head == << GenVertexArrays(vao), BindVertexArray(vao),
                 BufferNew(vert_nb, vbo), BufferFill(vbo, vert_nb),
                 BindBuffer("ARRAY_BUFFER", vbo) >>
      ptrs == set_vertex_pointers(formats)
  IN  IF ptrs.panic
      THEN [calls |-> head \o ptrs.calls, panic |-> TRUE, ret |-> None]
      ELSE IF indices # None
      THEN LET ind_nb == indices[1]
           IN  [calls |-> head \o ptrs.calls \o
                          << BindVertexArray(0),
                             BufferNew(ind_nb, ibo), BufferFill(ibo, ind_nb),
                             BindBuffer("ELEMENT_ARRAY_BUFFER", ibo) >>,
                panic |-> FALSE,
                ret |-> Some([render |-> [closure |-> "indexed", vao |-> vao,
                                          mode |-> mode, ind_nb |-> ind_nb],
                              vao |-> vao,
                              buffers |-> << vbo, ibo >>])]
      ELSE [calls |-> head \o ptrs.calls \o << BindVertexArray(0) >>,
            panic |-> FALSE,
            ret |-> Some([render |-> [closure |-> "array", vao |-> vao,
                                      mode |-> mode, vert_nb |-> vert_nb],
                          vao |-> vao,
                          buffers |-> << vbo >>])]

\* new that rejects an unsupported vertex format before it touches the device
new_validating_first(mode, vert_nb, indices, formats, vao, vbo, ibo) ==
  LET head == << GenVertexArrays(vao), BindVertexArray(vao),
                 BufferNew(vert_nb, vbo), BufferFill(vbo, vert_nb),
                 BindBuffer("ARRAY_BUFFER", vbo) >>
      ptrs == set_vertex_pointers(formats)
  IN  IF ptrs.panic
      THEN [calls |-> << >>, panic |-> TRUE, ret |-> None]
      ELSE IF indices # None
      THEN LET ind_nb == indices[1]
           IN  [calls |-> head \o ptrs.calls \o
                          << BufferNew(ind_nb, ibo), BufferFill(ibo, ind_nb),
                             BindBuffer("ELEMENT_ARRAY_BUFFER", ibo),
                             BindVertexArray(0) >>,
                panic |-> FALSE,
                ret |-> Some([render |-> [closure |-> "indexed", vao |-> vao,
                                          mode |-> mode, ind_nb |-> ind_nb],
                              vao |-> vao,
                              buffers |-> << vbo, ibo >>])]
      ELSE [calls |-> head \o ptrs.calls \o << BindVertexArray(0) >>,
            panic |-> FALSE,
            ret |-> Some([render |-> [closure |-> "array", vao |-> vao,
                                      mode |-> mode, vert_nb |-> vert_nb],
                          vao |-> vao,
                          buffers |-> << vbo >>])]

\* HasTessellation::new for a vertex type whose vertex_format() is formats
new(mode, vert_nb, indices, formats, vao, vbo, ibo) ==
  LET head == << GenVertexArrays(vao), BindVertexArray(vao),
                 BufferNew(vert_nb, vbo), BufferFill(vbo, vert_nb),
                 BindBuffer("ARRAY_BUFFER", vbo) >>
      ptrs == set_vertex_pointers(formats)
  IN  IF ptrs.panic
      THEN [calls |-> head \o ptrs.calls, panic |-> TRUE, ret |-> None]
      ELSE IF indices # None
      THEN LET ind_nb == indices[1]
           IN  [calls |-> head \o ptrs.calls \o
                          << BufferNew(ind_nb, ibo), BufferFill(ibo, ind_nb),
                             BindBuffer("ELEMENT_ARRAY_BUFFER", ibo),
                             BindVertexArray(0) >>,
                panic |-> FALSE,
                ret |-> Some([render |-> [closure |-> "indexed", vao |-> vao,
                                          mode |-> mode, ind_nb |-> ind_nb],
                              vao |-> vao,
                              buffers |-> << vbo, ibo >>])]
      ELSE [calls |-> head \o ptrs.calls \o << BindVertexArray(0) >>,
            panic |-> FALSE,
            ret |-> Some([render |-> [closure |-> "array", vao |-> vao,
                                      mode |-> mode, vert_nb |-> vert_nb],
                          vao |-> vao,
                          buffers |-> << vbo >>])]

\* attributeless that leaves its vertex array bound
attributeless_left_bound(mode, vert_nb, vao) ==
  [calls |-> << GenVertexArrays(vao), BindVertexArray(vao) >>,
   panic |-> FALSE,
   ret |-> Some([render |-> [closure |-> "attributeless", vao |-> vao,
                             mode |-> mode, vert_nb |-> vert_nb],
                 vao |-> vao,
                 buffers |-> << >>])]

\* attributeless that enables attribute 0, as new does
attributeless_enabling(mode, vert_nb, vao) ==
  [calls |-> << GenVertexArrays(vao), BindVertexArray(vao),
                EnableVertexAttribArray(0), BindVertexArray(0) >>,
   panic |-> FALSE,
   ret |-> Some([render |-> [closure |-> "attributeless", vao |-> vao,
                             mode |-> mode, vert_nb |-> vert_nb],
                 vao |-> vao,
                 buffers |-> << >>])]

\* HasTessellation::attributeless
attributeless(mode, vert_nb, vao) ==
  [calls |-> << GenVertexArrays(vao), BindVertexArray(vao), BindVertexArray(0) >>,
   panic |-> FALSE,
   ret |-> Some([render |-> [closure |-> "attributeless", vao |-> vao,
                             mode |-> mode, vert_nb |-> vert_nb],
                 vao |-> vao,
                 buffers |-> << >>])]

\* destroy that releases the buffers one call each
destroy_one_by_one(tessellation) ==
  [calls |-> << DeleteVertexArrays(tessellation.vao) >> \o
             [k \in DOMAIN tessellation.buffers |->
                DeleteBuffers(1, << tessellation.buffers[k] >>)],
   panic |-> FALSE,
   tessellation |-> tessellation]

\* destroy that releases the vertex array and keeps the buffers
destroy_keeping_buffers(tessellation) ==
  [calls |-> << DeleteVertexArrays(tessellation.vao) >>,
   panic |-> FALSE,
   tessellation |-> tessellation]

\* destroy that empties the buffer list once the buffers are released
destroy_clearing(tessellation) ==
  [calls |-> << DeleteVertexArrays(tessellation.vao) >> \o
             (IF tessellation.buffers # << >>
              THEN << DeleteBuffers(Len(tessellation.buffers), tessellation.buffers) >>
              ELSE << >>),
   panic |-> FALSE,
   tessellation |-> [tessellation EXCEPT !.buffers = << >>]]

\* HasTessellation::destroy(tessellation: &mut GLTess): the device calls, and
\* the tessellation as the call leaves it
destroy(tessellation) ==
  [calls |-> << DeleteVertexArrays(tessellation.vao) >> \o
             (IF tessellation.buffers # << >>
              THEN << DeleteBuffers(Len(tessellation.buffers), tessellation.buffers) >>
              ELSE << >>),
   panic |-> FALSE,
   tessellation |-> tessellation]

(***************************************************************************)
(* What a sequence of device calls leaves behind.                          *)
(***************************************************************************)
Range(s) == {s[i] : i \in DOMAIN s}

\* the vertex array active after calls, when before was active at their start
RECURSIVE bound_vao_after(_, _)
bound_vao_after(calls, before) ==
  IF calls = << >> THEN before
  ELSE LET last == calls[Len(calls)]
       IN  IF last.fn = "BindVertexArray" THEN last.array
           ELSE bound_vao_after(SubSeq(calls, 1, Len(calls) - 1), before)

\* the buffer bound to target after calls
RECURSIVE bound_buffer_after(_, _, _)
bound_buffer_after(calls, target, before) ==
  IF calls = << >> THEN before
  ELSE LET last == calls[Len(calls)]
       IN  IF last.fn = "BindBuffer" /\ last.target = target THEN last.buffer
           ELSE bound_buffer_after(SubSeq(calls, 1, Len(calls) - 1), target, before)

vaos_after(calls, before) ==
  (before \cup {c.name : c \in {d \in Range(calls) : d.fn = "GenVertexArrays"}})
    \ {c.names : c \in {d \in Range(calls) : d.fn = "DeleteVertexArrays"}}

bufs_after(calls, before) ==
  (before \cup {c.handle : c \in {d \in Range(calls) : d.fn = "Buffer::new"}})
    \ UNION {Range(c.names) : c \in {d \in Range(calls) : d.fn = "DeleteBuffers"}}

\* the device after an operation that issued calls
Issue(calls) ==
  /\ boundVao' = bound_vao_after(calls, boundVao)
  /\ arrayBuffer' = bound_buffer_after(calls, "ARRAY_BUFFER", arrayBuffer)
  /\ elementBuffer' = bound_buffer_after(calls, "ELEMENT_ARRAY_BUFFER", elementBuffer)
  /\ vaos' = vaos_after(calls, vaos)
  /\ bufs' = bufs_after(calls, bufs)

Running == ~lastOp.panic

Init ==
  /\ tess = << >>
  /\ built = << >>
  /\ destroyed = << >>
  /\ vaos = {}
  /\ bufs = {}
  /\ boundVao = 0
  /\ arrayBuffer = 0
  /\ elementBuffer = 0
  /\ lastOp = [op |-> "init", args |-> << >>, t |-> 0, before |-> 0,
               calls |-> << >>, panic |-> FALSE]

\* a call of GL33::new::<T>(mode, vertices, indices) to which the device hands
\* out the names vao, vbo and ibo (ibo is 0 when no index buffer is requested)
NewWith(mode, vert_nb, indices, formats, vao, vbo, ibo) ==
  /\ Running
  /\ Len(tess) < MaxTess \/ set_vertex_pointers(formats).panic
  /\ vao \in VaoNames \ vaos
  /\ vbo \in BufNames \ bufs
  /\ ibo \in IF indices # None /\ ~set_vertex_pointers(formats).panic
             THEN BufNames \ (bufs \cup {vbo}) ELSE {0}
  /\ LET r == new(mode, vert_nb, indices, formats, vao, vbo, ibo)
     IN  /\ tess' = tess \o r.ret
         /\ built' = IF r.panic THEN built
                     ELSE Append(built, [path |-> "new", mode |-> mode,
                                         vert_nb |-> vert_nb, indices |-> indices])
         /\ destroyed' = IF r.panic THEN destroyed ELSE Append(destroyed, 0)
         /\ Issue(r.calls)
         /\ lastOp' = [op |-> "new",
                       args |-> [mode |-> mode, vert_nb |-> vert_nb,
                                 indices |-> indices, formats |-> formats],
                       t |-> IF r.panic THEN 0 ELSE Len(tess) + 1,
                       before |-> boundVao, calls |-> r.calls, panic |-> r.panic]

\* a call of GL33::new::<T>(mode, vertices, indices): the device hands out any
\* names that are not allocated
New(mode, vert_nb, indices, formats) ==
  /\ Running
  /\ Len(tess) < MaxTess \/ set_vertex_pointers(formats).panic
  /\ \E vao \in VaoNames \ vaos, vbo \in BufNames \ bufs, ibo \in BufNames \cup {0} :
       NewWith(mode, vert_nb, indices, formats, vao, vbo, ibo)

\* a call of GL33::attributeless(mode, vert_nb) to which the device hands out vao
AttributelessWith(mode, vert_nb, vao) ==
  /\ Running
  /\ Len(tess) < MaxTess
  /\ vao \in VaoNames \ vaos
  /\ LET r == attributeless(mode, vert_nb, vao)
     IN  /\ tess' = tess \o r.ret
         /\ built' = Append(built, [path |-> "attributeless", mode |-> mode,
                                    vert_nb |-> vert_nb, indices |-> None])
         /\ destroyed' = Append(destroyed, 0)
         /\ Issue(r.calls)
         /\ lastOp' = [op |-> "attributeless",
                       args |-> [mode |-> mode, vert_nb |-> vert_nb],
                       t |-> Len(tess) + 1,
                       before |-> boundVao, calls |-> r.calls, panic |-> r.panic]

\* a call of GL33::attributeless(mode, vert_nb)
Attributeless(mode, vert_nb) ==
  /\ Running
  /\ Len(tess) < MaxTess
  /\ \E vao \in VaoNames \ vaos : AttributelessWith(mode, vert_nb, vao)

\* a call of the render closure of the t-th tessellation
Render(t, size, instances) ==
  /\ Running
  /\ t \in DOMAIN tess
  /\ LET r == render(tess[t].render, size, instances)
     IN  /\ Issue(r.calls)
         /\ lastOp' = [op |-> "render",
                       args |-> [size |-> size, instances |-> instances],
                       t |-> t,
                       before |-> boundVao, calls |-> r.calls, panic |-> r.panic]
  /\ UNCHANGED <<tess, built, destroyed>>

\* a call of GL33::destroy on the t-th tessellation
Destroy(t) ==
  /\ Running
  /\ t \in DOMAIN tess
  /\ LET r == destroy(tess[t])
     IN  /\ tess' = [tess EXCEPT ![t] = r.tessellation]
         /\ Issue(r.calls)
         /\ lastOp' = [op |-> "destroy", args |-> << >>, t |-> t,
                       before |-> boundVao, calls |-> r.calls, panic |-> r.panic]
  /\ destroyed' = [destroyed EXCEPT ![t] = IF @ = 0 THEN 1 ELSE 2]
  /\ UNCHANGED built

(***************************************************************************)
(* The inputs.                                                             *)
(***************************************************************************)
Lens == 0..MaxLen
IndexArgs == {None} \cup {Some(n) : n \in Lens}
SizeArgs == {None, Some(2), Some(5)}
InstanceArgs == 0..MaxInstances

F32x3 == [comp_type |-> "Floating", dim |-> "Dim3", comp_size |-> 32]
U8x4 == [comp_type |-> "Unsigned", dim |-> "Dim4", comp_size |-> 8]
I16x2 == [comp_type |-> "Integral", dim |-> "Dim2", comp_size |-> 16]
B8x1 == [comp_type |-> "Boolean", dim |-> "Dim1", comp_size |-> 8]
F16x2 == [comp_type |-> "Floating", dim |-> "Dim2", comp_size |-> 16]
B32x1 == [comp_type |-> "Boolean", dim |-> "Dim1", comp_size |-> 32]

(***************************************************************************)
(* Spec: a program that constructs several tessellations of two vertex     *)
(* types, by the three construction paths, and draws them in any order.    *)
(***************************************************************************)
VertexTypes == { << F32x3, U8x4 >>, << F32x3, F16x2 >> }

DoNew ==
  \E indices \in {None, Some(MaxLen)}, formats \in VertexTypes :
    New("Point", MaxLen + 1, indices, formats)

DoAttributeless == Attributeless("Point", MaxLen)

DoRender ==
  \E t \in 1..MaxTess, size \in {None, Some(5)}, instances \in {0, 1, MaxInstances} :
    Render(t, size, instances)

Next == DoNew \/ DoAttributeless \/ DoRender

Spec == Init /\ [][Next]_vars

(***************************************************************************)
(* SpecDraw: a program that constructs one tessellation, of any mode and   *)
(* any size, and draws it.                                                 *)
(***************************************************************************)
DrawNew ==
  \E mode \in Modes, vert_nb \in Lens, indices \in IndexArgs, formats \in VertexTypes :
    tess = << >> /\ New(mode, vert_nb, indices, formats)

DrawAttributeless ==
  \E mode \in Modes, vert_nb \in Lens : tess = << >> /\ Attributeless(mode, vert_nb)

DrawRender == \E size \in SizeArgs, instances \in InstanceArgs : Render(1, size, instances)

NextDraw == DrawNew \/ DrawAttributeless \/ DrawRender

SpecDraw == Init /\ [][NextDraw]_vars

(***************************************************************************)
(* SpecLayout: a program that constructs one tessellation of any vertex    *)
(* type: every format of one component, and every format of at most        *)
(* MaxComps components drawn from six component formats.                   *)
(***************************************************************************)
FormatSeqs ==
  {<< f >> : f \in VertexComponentFormat}
    \cup UNION {[1..n -> {F32x3, U8x4, I16x2, B8x1, F16x2, B32x1}] : n \in 0..MaxComps}

LayoutNew ==
  \E mode \in {"Triangle"}, indices \in {None, Some(MaxLen)}, formats \in FormatSeqs :
    tess = << >> /\ New(mode, MaxLen, indices, formats)

NextLayout == LayoutNew

SpecLayout == Init /\ [][NextLayout]_vars

(***************************************************************************)
(* SpecLife: a program that constructs several tessellations by the three  *)
(* construction paths, draws them and destroys them, in any order and any  *)
(* number of times.                                                        *)
(***************************************************************************)
LifeTypes == { << F32x3, U8x4 >>, << F32x3, F16x2 >>, << B32x1 >> }

\* the least name of pool that is not in used, or 0 when there is none
LeastFree(pool, used) ==
  IF pool \subseteq used THEN 0
  ELSE CHOOSE x \in pool \ used : \A y \in pool \ used : x <= y

\* the device of SpecLife hands out the least name that is not allocated, so
\* that a released name is handed out again at once
LifeNew ==
  \E indices \in {None, Some(MaxLen)}, formats \in LifeTypes :
    LET vao == LeastFree(VaoNames, vaos)
        vbo == LeastFree(BufNames, bufs)
        ibo == IF indices # None /\ ~set_vertex_pointers(formats).panic
               THEN LeastFree(BufNames, bufs \cup {vbo}) ELSE 0
    IN  NewWith("Point", MaxLen + 1, indices, formats, vao, vbo, ibo)

LifeAttributeless == AttributelessWith("Point", MaxLen, LeastFree(VaoNames, vaos))

LifeRender == \E t \in 1..MaxTess, instances \in {0, 1} : Render(t, None, instances)

LifeDestroy == \E t \in 1..MaxTess : Destroy(t)

NextLife == LifeNew \/ LifeAttributeless \/ LifeRender \/ LifeDestroy

SpecLife == Init /\ [][NextLife]_vars

(***************************************************************************)
(* The properties.                                                         *)
(***************************************************************************)
IsDraw(c) ==
  c.fn \in {"DrawArrays", "DrawArraysInstanced", "DrawElements", "DrawElementsInstanced"}
IsSize(c) == c.fn \in {"PointSize", "LineWidth"}
IsBindBuffer(c) == c.fn = "BindBuffer"
IsPointer(c) == c.fn \in {"VertexAttribPointer", "VertexAttribIPointer"}
IsEnable(c) == c.fn = "EnableVertexAttribArray"

\* the device topology of a mode
Topology ==
  [Point |-> "POINTS", Line |-> "LINES", LineStrip |-> "LINE_STRIP",
   Triangle |-> "TRIANGLES", TriangleFan |-> "TRIANGLE_FAN",
   TriangleStrip |-> "TRIANGLE_STRIP"]

Rendered == lastOp.op = "render"
RenderedIndexed ==
  /\ Rendered
  /\ built[lastOp.t].path = "new"
  /\ built[lastOp.t].indices # None
RenderedArray ==
  /\ Rendered
  /\ built[lastOp.t].path = "new"
  /\ built[lastOp.t].indices = None
RenderedAttributeless ==
  /\ Rendered
  /\ built[lastOp.t].path = "attributeless"

\* C1: a draw of a tessellation built with new from V vertices and Some index
\* slice of length I, with mode m and n instances, issues exactly one draw
\* command: DrawElements(topology of m, I) when n = 1, DrawElementsInstanced(
\* topology of m, I, n) when n > 1; when n = 0 it issues no draw command and
\* panics.
C1_IndexedDraw ==
  RenderedIndexed =>
    LET b == built[lastOp.t]
        n == lastOp.args.instances
        draws == SelectSeq(lastOp.calls, IsDraw)
    IN  /\ n = 1 =>
             /\ draws = << [fn |-> "DrawElements", mode |-> Topology[b.mode],
                            count |-> b.indices[1], type |-> "UNSIGNED_INT"] >>
             /\ ~lastOp.panic
        /\ n > 1 =>
             /\ draws = << [fn |-> "DrawElementsInstanced", mode |-> Topology[b.mode],
                            count |-> b.indices[1], type |-> "UNSIGNED_INT",
                            primcount |-> n] >>
             /\ ~lastOp.panic
        /\ n = 0 => draws = << >> /\ lastOp.panic

C1_Witness ==
  /\ RenderedIndexed
  /\ lastOp.args.instances = 3
  /\ built[lastOp.t].indices = Some(2)
  /\ built[lastOp.t].vert_nb = 1
  /\ Len(SelectSeq(lastOp.calls, IsDraw)) = 1

\* C2: a draw of a tessellation built with new from V vertices and no indices,
\* with mode m and n instances, issues exactly one draw command:
\* DrawArrays(topology of m, 0, V) when n = 1, DrawArraysInstanced(topology of
\* m, 0, V, n) when n > 1; when n = 0 it issues no draw command and panics.  It
\* never issues an indexed draw.
C2_ArrayDraw ==
  RenderedArray =>
    LET b == built[lastOp.t]
        n == lastOp.args.instances
        draws == SelectSeq(lastOp.calls, IsDraw)
    IN  /\ n = 1 =>
             /\ draws = << [fn |-> "DrawArrays", mode |-> Topology[b.mode],
                            first |-> 0, count |-> b.vert_nb] >>
             /\ ~lastOp.panic
        /\ n > 1 =>
             /\ draws = << [fn |-> "DrawArraysInstanced", mode |-> Topology[b.mode],
                            first |-> 0, count |-> b.vert_nb, primcount |-> n] >>
             /\ ~lastOp.panic
        /\ n = 0 => draws = << >> /\ lastOp.panic
        /\ \A k \in DOMAIN lastOp.calls :
             lastOp.calls[k].fn \notin {"DrawElements", "DrawElementsInstanced"}

C2_Witness ==
  /\ RenderedArray
  /\ lastOp.args.instances = 2
  /\ built[lastOp.t].vert_nb = 2
  /\ Len(SelectSeq(lastOp.calls, IsDraw)) = 1

\* C3: attributeless(mode, N) generates exactly one vertex array, requests no
\* buffer, binds no buffer and issues no attribute pointer and no attribute
\* enable; the tessellation owns no buffer, and its draw with size None and one
\* instance binds no buffer and issues the single draw DrawArrays(topology, 0, N).
C3_Attributeless ==
  /\ lastOp.op = "attributeless" =>
       /\ Cardinality({k \in DOMAIN lastOp.calls :
                         lastOp.calls[k].fn = "GenVertexArrays"}) = 1
       /\ \A k \in DOMAIN lastOp.calls :
            /\ lastOp.calls[k].fn \notin {"Buffer::new", "Buffer::fill", "BindBuffer"}
            /\ ~IsPointer(lastOp.calls[k])
            /\ ~IsEnable(lastOp.calls[k])
       /\ tess[lastOp.t].buffers = << >>
  /\ (RenderedAttributeless /\ lastOp.args.size = None /\ lastOp.args.instances = 1) =>
       /\ SelectSeq(lastOp.calls, IsDraw)
            = << [fn |-> "DrawArrays", mode |-> Topology[built[lastOp.t].mode],
                  first |-> 0, count |-> built[lastOp.t].vert_nb] >>
       /\ SelectSeq(lastOp.calls, IsBindBuffer) = << >>
       /\ tess[lastOp.t].buffers = << >>

C3_Witness ==
  /\ RenderedAttributeless
  /\ lastOp.args.size = None
  /\ lastOp.args.instances = 1
  /\ built[lastOp.t].vert_nb = 2
  /\ bufs = {}

\* C4: every draw sets the point size to the given size, or to 1.0 when no size
\* is given, when the mode is Point, sets the line width the same way when the
\* mode is Line or LineStrip, and issues neither call for the triangle modes;
\* the call comes before the draw command.
C4_PointLineSize ==
  Rendered =>
    LET m == built[lastOp.t].mode
        size == lastOp.args.size
        value == IF size = None THEN 1 ELSE size[1]
        sizes == SelectSeq(lastOp.calls, IsSize)
    IN  /\ m = "Point" => sizes = << [fn |-> "PointSize", size |-> value] >>
        /\ m \in {"Line", "LineStrip"} => sizes = << [fn |-> "LineWidth", width |-> value] >>
        /\ m \in {"Triangle", "TriangleFan", "TriangleStrip"} => sizes = << >>
        /\ \A i, j \in DOMAIN lastOp.calls :
             (IsSize(lastOp.calls[i]) /\ IsDraw(lastOp.calls[j])) => i < j

C4_Witness ==
  /\ Rendered
  /\ built[lastOp.t].mode = "LineStrip"
  /\ lastOp.args.size = Some(5)
  /\ lastOp.args.instances = 1
  /\ Len(SelectSeq(lastOp.calls, IsSize)) = 1

Constructed == lastOp.op = "new"

\* the pointer calls of the last operation, in the order issued
Pointers == SelectSeq(lastOp.calls, IsPointer)

\* bytes of a component of dimension d and bit width w: d * (w / 8)
ByteWeight(f) ==
  (CASE f.dim = "Dim1" -> 1 [] f.dim = "Dim2" -> 2 [] f.dim = "Dim3" -> 3
     [] f.dim = "Dim4" -> 4) * (f.comp_size \div 8)

RECURSIVE SumByteWeight(_, _)
SumByteWeight(formats, n) ==
  IF n = 0 THEN 0 ELSE SumByteWeight(formats, n - 1) + ByteWeight(formats[n])

\* the sum of the weights of the first n components, the weight of a
\* component being what component_weight gives for it
RECURSIVE SumWeight(_, _)
SumWeight(formats, n) ==
  IF n = 0 THEN 0 ELSE SumWeight(formats, n - 1) + component_weight(formats[n])

\* C5: the weight of a component of dimension d and bit width w, as the
\* offsets and the stride passed to the device show it, is d * (w / 8): after
\* a construction that did not panic, the stride of every pointer call is the
\* sum of the byte weights of the components and the offset of slot i is the
\* sum of the byte weights of the components before it.
C5_ByteWeight ==
  (Constructed /\ ~lastOp.panic) =>
    LET formats == lastOp.args.formats
    IN  \A k \in DOMAIN Pointers :
          /\ Pointers[k].stride = SumByteWeight(formats, Len(formats))
          /\ Pointers[k].pointer = SumByteWeight(formats, k - 1)

\* C6: after a construction from N supported components, slot i gets the
\* offset that is the sum of the weights of the components before it, every
\* slot gets the same stride, the sum of the N weights, and each offset plus
\* the weight of its component is the next offset, or the stride for the last.
C6_OffsetsAndStride ==
  (Constructed /\ ~lastOp.panic) =>
    LET formats == lastOp.args.formats
        N == Len(formats)
    IN  /\ Len(Pointers) = N
        /\ \A k \in 1..N :
             /\ Pointers[k].index = k - 1
             /\ Pointers[k].pointer = SumWeight(formats, k - 1)
             /\ Pointers[k].stride = SumWeight(formats, N)
             /\ Pointers[k].pointer + component_weight(formats[k])
                  = IF k < N THEN Pointers[k + 1].pointer ELSE Pointers[k].stride

C6_Witness ==
  /\ Constructed
  /\ ~lastOp.panic
  /\ lastOp.args.formats = << F32x3, B8x1, I16x2 >>
  /\ Pointers[3].pointer = 104
  /\ Pointers[3].stride = 136

\* the (category, bit width) pairs the spec names as supported
SpecPairs ==
  ({"Integral", "Unsigned"} \X {8, 16, 32}) \cup {<< "Floating", 32 >>}

\* the pairs opengl_sized_type maps to a device type
CodePairs == SpecPairs \cup {<< "Boolean", 8 >>}

Pair(f) == << f.comp_type, f.comp_size >>

\* the positions of the components of formats whose pair is not in pairs
Outside(formats, pairs) == {k \in DOMAIN formats : Pair(formats[k]) \notin pairs}

Min(S) == CHOOSE x \in S : \A y \in S : x <= y

\* C7: a construction whose vertex format has an unsupported component, the
\* first at position i (slot i), panics; it issues no pointer call and no
\* enable call for slot i or a later slot, and no call at all after the calls
\* of slot i - 1; no tessellation is produced.
C7_FailsBeforeDeviceCall ==
  (Constructed /\ Outside(lastOp.args.formats, CodePairs) # {}) =>
    LET i == Min(Outside(lastOp.args.formats, CodePairs)) - 1
    IN  /\ lastOp.panic
        /\ \A k \in DOMAIN lastOp.calls :
             (IsPointer(lastOp.calls[k]) \/ IsEnable(lastOp.calls[k]))
               => lastOp.calls[k].index < i
        /\ Len(SelectSeq(lastOp.calls, IsPointer)) = i
        /\ Len(SelectSeq(lastOp.calls, IsEnable)) = i
        /\ LET last == lastOp.calls[Len(lastOp.calls)]
           IN  IF i = 0 THEN last.fn = "BindBuffer" /\ last.target = "ARRAY_BUFFER"
               ELSE last = [fn |-> "EnableVertexAttribArray", index |-> i - 1]
        /\ lastOp.t = 0
        /\ tess = << >>

C7_Witness ==
  /\ Constructed
  /\ lastOp.args.formats = << F32x3, U8x4, F16x2 >>
  /\ lastOp.panic
  /\ Len(Pointers) = 2

\* C8 as stated: a construction panics exactly when some component of its
\* vertex format has a (category, bit width) pair outside the combinations the
\* spec names: 8, 16 and 32 bit Integral and Unsigned, and 32 bit Floating.
C8_SpecPairsOnly ==
  Constructed => (lastOp.panic <=> Outside(lastOp.args.formats, SpecPairs) # {})

\* C8 amended: a construction panics exactly when some component of its vertex
\* format has a pair outside 8, 16 and 32 bit Integral and Unsigned, 32 bit
\* Floating and 8 bit Boolean.
C8_CodePairs ==
  Constructed => (lastOp.panic <=> Outside(lastOp.args.formats, CodePairs) # {})

C8_Witness ==
  /\ Constructed
  /\ \E d \in Dims :
       lastOp.args.formats = << [comp_type |-> "Boolean", dim |-> d, comp_size |-> 8] >>
  /\ ~lastOp.panic
  /\ Len(tess) = 1

\* C9: when a construction returns, by any of the three paths, the active
\* vertex array is 0, whatever was active before it.
C9_UnboundAfterConstruction ==
  (lastOp.op \in {"new", "attributeless"} /\ ~lastOp.panic) => boundVao = 0

C9_Witness ==
  /\ lastOp.op \in {"new", "attributeless"}
  /\ ~lastOp.panic
  /\ lastOp.before # 0
  /\ Len(tess) = 2

\* C10: every draw first binds the vertex array of the tessellation drawn,
\* and every draw command is issued while that vertex array is the active
\* one, whatever was active when the draw started.
C10_DrawsUnderOwnVao ==
  Rendered =>
    /\ lastOp.calls[1] = [fn |-> "BindVertexArray", array |-> tess[lastOp.t].vao]
    /\ \A k \in DOMAIN lastOp.calls :
         (IsDraw(lastOp.calls[k]) \/ IsSize(lastOp.calls[k])) =>
           bound_vao_after(SubSeq(lastOp.calls, 1, k - 1), lastOp.before)
             = tess[lastOp.t].vao

C10_Witness ==
  /\ Rendered
  /\ Len(tess) = 2
  /\ lastOp.before # 0
  /\ lastOp.before # tess[lastOp.t].vao
  /\ Len(SelectSeq(lastOp.calls, IsDraw)) = 1

Destroyed == lastOp.op = "destroy"
IsDeleteVertexArrays(c) == c.fn = "DeleteVertexArrays"
IsDeleteBuffers(c) == c.fn = "DeleteBuffers"

\* C11: a destroy issues exactly one DeleteVertexArrays, for the vertex array
\* of the tessellation destroyed; when the tessellation's buffer list is not
\* empty it issues exactly one DeleteBuffers whose count and names are the
\* whole list (two handles for an indexed tessellation, one for a non-indexed
\* one), and nothing else; for an attributeless tessellation it issues the
\* DeleteVertexArrays only.
C11_DestroyCalls ==
  Destroyed =>
    LET it == tess[lastOp.t]
        how == built[lastOp.t]
        owned == IF how.path = "attributeless" THEN 0
                 ELSE IF how.indices # None THEN 2 ELSE 1
        vaoCalls == SelectSeq(lastOp.calls, IsDeleteVertexArrays)
        bufCalls == SelectSeq(lastOp.calls, IsDeleteBuffers)
    IN  /\ ~lastOp.panic
        /\ Len(it.buffers) = owned
        /\ vaoCalls = << [fn |-> "DeleteVertexArrays", n |-> 1, names |-> it.vao] >>
        /\ bufCalls = IF owned = 0 THEN << >>
                      ELSE << [fn |-> "DeleteBuffers", n |-> owned, names |-> it.buffers] >>
        /\ Len(lastOp.calls) = Len(vaoCalls) + Len(bufCalls)

C11_Witness ==
  /\ Destroyed
  /\ Len(tess) = 2
  /\ built[lastOp.t].indices # None
  /\ Len(SelectSeq(lastOp.calls, IsDeleteBuffers)) = 1
  /\ \E u \in DOMAIN tess : built[u].path = "attributeless" /\ destroyed[u] = 1

IsBufferNew(c) == c.fn = "Buffer::new"

\* the handles the buffers allocated by the last operation got, in the order
\* of their allocation
AllocatedBuffers ==
  LET allocs == SelectSeq(lastOp.calls, IsBufferNew)
  IN  [k \in DOMAIN allocs |-> allocs[k].handle]

\* C12: the buffer list of a tessellation just constructed is, for new with an
\* index slice, the handle of the vertex buffer followed by the handle of the
\* index buffer, two different handles; for new without indices, the handle
\* of the vertex buffer alone; for attributeless, empty. The list of every
\* tessellation has at most two entries.
C12_OwnedHandleList ==
  /\ (lastOp.op \in {"new", "attributeless"} /\ ~lastOp.panic) =>
       LET it == tess[lastOp.t]
       IN  /\ lastOp.t = Len(tess)
           /\ it.buffers = AllocatedBuffers
           /\ Len(it.buffers) = IF lastOp.op = "attributeless" THEN 0
                                ELSE IF lastOp.args.indices # None THEN 2 ELSE 1
           /\ Len(it.buffers) = 2 => it.buffers[1] # it.buffers[2]
           /\ \A k \in DOMAIN it.buffers :
                \E j \in DOMAIN lastOp.calls :
                  lastOp.calls[j] = [fn |-> "Buffer::fill", handle |-> it.buffers[k],
                                     len |-> IF k = 1 THEN lastOp.args.vert_nb
                                             ELSE lastOp.args.indices[1]]
  /\ \A t \in DOMAIN tess : Len(tess[t].buffers) \in 0..2

C12_Witness ==
  /\ lastOp.op = "new"
  /\ ~lastOp.panic
  /\ Len(tess) = 2
  /\ tess[2].buffers = << 3, 1 >>
  /\ Len(tess[1].buffers) = 1

\* a tessellation that was constructed and never destroyed
Live(t) == destroyed[t] = 0

\* the live tessellations that hold vertex array h, or buffer b
OwnersOfVao(h) == {t \in DOMAIN tess : Live(t) /\ tess[t].vao = h}
OwnersOfBuffer(b) == {t \in DOMAIN tess : Live(t) /\ b \in Range(tess[t].buffers)}

\* the handles a construction that panicked allocated
LeftBehindVaos ==
  IF lastOp.op = "new" /\ lastOp.panic
  THEN {c.name : c \in {d \in Range(lastOp.calls) : d.fn = "GenVertexArrays"}}
  ELSE {}
LeftBehindBuffers ==
  IF lastOp.op = "new" /\ lastOp.panic
  THEN {c.handle : c \in {d \in Range(lastOp.calls) : d.fn = "Buffer::new"}}
  ELSE {}

\* no operation changes the handles a tessellation holds
HandlesKept ==
  \A t \in DOMAIN tess :
    /\ t \in DOMAIN tess'
    /\ tess'[t].vao = tess[t].vao
    /\ tess'[t].buffers = tess[t].buffers

C14_AllReleased ==
  (tess # << >> /\ \A t \in DOMAIN tess : destroyed[t] = 1) =>
    (vaos = {} /\ bufs = {})

\* C15: no draw, whether it panics or not, and no destroy changes a
\* tessellation: its vertex array, its buffer list and the captures of its
\* render closure (vertex array, mode, vertex or index count) stay what
\* construction made them; a destroy that follows a destroy of the same
\* tessellation issues the same calls again.
C15_Immutable ==
  [][/\ \A t \in DOMAIN tess : t \in DOMAIN tess' /\ tess'[t] = tess[t]
     /\ (Destroyed /\ lastOp'.op = "destroy" /\ lastOp'.t = lastOp.t) =>
          lastOp'.calls = lastOp.calls]_vars

C15_Witness ==
  /\ Destroyed
  /\ destroyed[lastOp.t] = 2
  /\ Len(tess[lastOp.t].buffers) = 2
  /\ Len(SelectSeq(lastOp.calls, IsDeleteBuffers)) = 1
  /\ lastOp.calls[2].names = tess[lastOp.t].buffers

\* the buffer handles among the captures of a render closure: the vertex
\* buffer, then the index buffer
CapturedBuffers(r) ==
  (IF "vbo" \in DOMAIN r THEN << r.vbo >> ELSE << >>) \o
  (IF "ibo" \in DOMAIN r THEN << r.ibo >> ELSE << >>)

DimCount == [Dim1 |-> 1, Dim2 |-> 2, Dim3 |-> 3, Dim4 |-> 4]

IsLayoutCall(c) == IsPointer(c) \/ IsEnable(c)

\* C17: after a construction from N supported components, the pointer and
\* enable calls issued are, for i = 0 .. N-1 in this order, one pointer call
\* for slot i followed at once by the enable call of slot i; the pointer call
\* of slot i has the dimension of component i as its size and is
\* VertexAttribPointer exactly when the component is Floating,
\* VertexAttribIPointer when it is Integral, Unsigned or Boolean.
C17_SlotBinding ==
  (Constructed /\ ~lastOp.panic) =>
    LET formats == lastOp.args.formats
        N == Len(formats)
        layout == SelectSeq(lastOp.calls, IsLayoutCall)
    IN  /\ Len(layout) = 2 * N
        /\ \A k \in 1..N :
             LET p == layout[2 * k - 1]
                 e == layout[2 * k]
             IN  /\ IsPointer(p)
                 /\ p.index = k - 1
                 /\ p.size = DimCount[formats[k].dim]
                 /\ (p.fn = "VertexAttribPointer") <=> (formats[k].comp_type = "Floating")
                 /\ (p.fn = "VertexAttribIPointer")
                      <=> (formats[k].comp_type \in {"Integral", "Unsigned", "Boolean"})
                 /\ e = [fn |-> "EnableVertexAttribArray", index |-> k - 1]
        /\ \A j \in 1..(Len(lastOp.calls) - 1) :
             IsPointer(lastOp.calls[j]) => IsEnable(lastOp.calls[j + 1])

C17_Witness ==
  /\ Constructed
  /\ ~lastOp.panic
  /\ lastOp.args.formats = << B8x1, F32x3, I16x2 >>
  /\ Pointers[1].fn = "VertexAttribIPointer"
  /\ Pointers[2].fn = "VertexAttribPointer"
  /\ Pointers[2].size = 3
  /\ Len(SelectSeq(lastOp.calls, IsEnable)) = 3

C19_ZeroInstances ==
  (Rendered /\ lastOp.args.instances = 0) =>
    LET it == tess[lastOp.t]
        m == built[lastOp.t].mode
        size == lastOp.args.size
        value == IF size = None THEN 1 ELSE size[1]
    IN  /\ lastOp.panic
        /\ lastOp.calls =
             << [fn |-> "BindVertexArray", array |-> it.vao] >> \o
             (IF m = "Point" THEN << [fn |-> "PointSize", size |-> value] >>
              ELSE IF m \in {"Line", "LineStrip"}
              THEN << [fn |-> "LineWidth", width |-> value] >>
              ELSE << >>)
        /\ SelectSeq(lastOp.calls, IsDraw) = << >>
        /\ boundVao = it.vao

C19_Witness ==
  /\ RenderedArray
  /\ lastOp.args.instances = 0
  /\ lastOp.panic
  /\ built[lastOp.t].mode = "LineStrip"
  /\ Len(lastOp.calls) = 2
  /\ boundVao # lastOp.before

====
